---- MODULE Spec2Model ----
(***************************************************************************)
(* GCP Workload Identity Federation app (src/main.ts).                     *)
(*                                                                         *)
(* The app keeps five keys in the key-value store, refreshes a GCP access  *)
(* token in onSync, is poked by a 10-minute schedule and serves the OIDC   *)
(* discovery document and key set over HTTP.                               *)
(*                                                                         *)
(* Conventions of the model:                                               *)
(*   - an optional value (a KV value, a signal, a JS `undefined`) is the   *)
(*     empty tuple << >> when absent and <<v>> when present;               *)
(*   - a string that the code inspects (includes, URL parsing) is a        *)
(*     sequence of tokens, "/" being a token of its own;                   *)
(*   - time is Date.now() in milliseconds on a clock that starts at        *)
(*     StartTime and advances in steps of TickMs;                          *)
(*   - SHA-256 is taken to be collision free: a digest is the tagged       *)
(*     message.                                                            *)
(***************************************************************************)
EXTENDS Integers, Sequences, FiniteSets, TLC

VARIABLES
    now,            \* Date.now(), milliseconds
    triggerDue,     \* the schedule's 10-minute mark was reached and not yet served
    kv,             \* kv.app: the five KV_KEYS
    config,         \* input.app.config as the host currently holds it
    syncRequested,  \* lifecycle.sync() was called and the sync has not started yet
    sync,           \* the running onSync: its position and its locals
    signals,        \* published signals accessToken / expiresAt
    cachedFrom,     \* history: the two remote calls behind the stored expiresAt
    http,           \* the running onRequest for the key set: its position and its locals
    lastOp          \* the operation that made the last step, with what it observed

vars == <<now, triggerDue, kv, config, syncRequested, sync, signals,
          cachedFrom, http, lastOp>>

----------------------------------------------------------------------------
(* Constants of src/main.ts *)

REFRESH_BUFFER_SECONDS == 300

DEFAULT_DURATION_SECONDS == 3600

ALGORITHM == "RS256"

ScheduleIntervalMinutes == 10

ScheduleIntervalMs == ScheduleIntervalMinutes * 60 * 1000

----------------------------------------------------------------------------
(* Bounds of the model *)

MaxTicks == 3

SchedMaxTicks == 7

TickMs == 150 * 1000

StartTime == ScheduleIntervalMs

MaxNow == StartTime + MaxTicks * TickMs

SchedMaxNow == StartTime + SchedMaxTicks * TickMs

GeneratedKeys == {1, 2}

AppUrl == <<"https://", "app.flows.example">>

----------------------------------------------------------------------------
(* Configuration objects (config schema, src/main.ts 83-119) *)

CanonicalOrder ==
    <<"projectId", "serviceAccountEmail", "workloadIdentityProvider",
      "scopes", "durationSeconds">>

DefaultScopes == <<"https://www.googleapis.com/auth/cloud-platform">>

PoolPath == <<"projects", "/", "123", "/", "workloadIdentityPools", "/", "pool1">>

ProviderPath == PoolPath \o <<"/", "providers", "/", "x">>

MakeConfig(project, email, provider, scopeList, duration) ==
    [fieldOrder |-> CanonicalOrder,
     projectId |-> project,
     serviceAccountEmail |-> email,
     workloadIdentityProvider |-> provider,
     scopes |-> scopeList,
     durationSeconds |-> duration]

ConfigNoProject == MakeConfig("", "", << >>, DefaultScopes, DEFAULT_DURATION_SECONDS)

ConfigSetup == MakeConfig("p1", "", << >>, DefaultScopes, DEFAULT_DURATION_SECONDS)

ConfigBadProvider == MakeConfig("p1", "sa1@p1", PoolPath, DefaultScopes, 600)

ConfigA == MakeConfig("p1", "sa1@p1", ProviderPath, DefaultScopes, 600)

ConfigB == MakeConfig("p1", "sa2@p1", ProviderPath, <<"scope.read">>, 900)

Configs == {ConfigNoProject, ConfigSetup, ConfigBadProvider, ConfigA, ConfigB}

----------------------------------------------------------------------------
(* Helpers of src/main.ts *)

\* String.prototype.includes on token sequences
Includes(s, sub) ==
    \E i \in 0..(Len(s) - Len(sub)) : \A j \in 1..Len(sub) : s[i + j] = sub[j]

FieldValue(obj, field) ==
    CASE field = "projectId" -> obj.projectId
      [] field = "serviceAccountEmail" -> obj.serviceAccountEmail
      [] field = "workloadIdentityProvider" -> obj.workloadIdentityProvider
      [] field = "scopes" -> obj.scopes
      [] field = "durationSeconds" -> obj.durationSeconds

\* JSON.stringify: the members in the object's own key order
JSONstringify(obj) ==
    [i \in 1..Len(obj.fieldOrder) |->
        <<obj.fieldOrder[i], FieldValue(obj, obj.fieldOrder[i])>>]

\* crypto.subtle.digest("SHA-256", ...) rendered as hex
Sha256Hex(message) == <<"sha256", message>>

generateChecksum(obj) == Sha256Hex(JSONstringify(obj))

\* new Date(expireTime).getTime(): expireTime is an RFC 3339 instant, kept in seconds
ParseTime_seconds(expireTime) == expireTime

ParseTime(expireTime) == expireTime * 1000

\* JS truthiness of a value read from the store
FalsyNumber(v) == v = << >> \/ v[1] = 0

FalsyValue(v) == v = << >>

EmptyStore ==
    [privateKey |-> << >>, publicKey |-> << >>, keyId |-> << >>,
     expiresAt |-> << >>, configChecksum |-> << >>]

\* crypto.subtle.exportKey("jwk", ...) of the two halves of generated pair g
\* (of the private parameters d, p and q are kept)
privateKeyJwk(g) ==
    [kty |-> "RSA", n |-> <<"n", g>>, e |-> "AQAB", alg |-> ALGORITHM, ext |-> TRUE,
     key_ops |-> <<"sign">>, d |-> <<"d", g>>, p |-> <<"p", g>>, q |-> <<"q", g>>]

publicKeyJwk(g) ==
    [kty |-> "RSA", n |-> <<"n", g>>, e |-> "AQAB", alg |-> ALGORITHM, ext |-> TRUE,
     key_ops |-> <<"verify">>]

randomUUID(g) == <<"uuid", g>>

\* shouldRefreshCredentials, evaluated on the store contents at time t
shouldRefreshCredentials_lte(store, cfg, t) ==
    LET expiresAt == store.expiresAt
        previousChecksum == store.configChecksum
        currentChecksum == generateChecksum(cfg)
        configChanged ==
            FalsyValue(previousChecksum) \/ currentChecksum # previousChecksum[1]
        refreshThreshold == t + REFRESH_BUFFER_SECONDS * 1000
        needsRefresh == FalsyNumber(expiresAt) \/ expiresAt[1] <= refreshThreshold
    IN  configChanged \/ needsRefresh

shouldRefreshCredentials_always(store, cfg, t) ==
    LET expiresAt == store.expiresAt
        previousChecksum == store.configChecksum
        currentChecksum == generateChecksum(cfg)
        configChanged ==
            FalsyValue(previousChecksum) \/ <<currentChecksum>> # previousChecksum[1]
        refreshThreshold == t + REFRESH_BUFFER_SECONDS * 1000
        needsRefresh == FalsyNumber(expiresAt) \/ expiresAt[1] < refreshThreshold
    IN  configChanged \/ needsRefresh

shouldRefreshCredentials_expiryOnly(store, cfg, t) ==
    LET expiresAt == store.expiresAt
        refreshThreshold == t + REFRESH_BUFFER_SECONDS * 1000
        needsRefresh == FalsyNumber(expiresAt) \/ expiresAt[1] < refreshThreshold
    IN  needsRefresh

shouldRefreshCredentials(store, cfg, t) ==
    LET expiresAt == store.expiresAt
        previousChecksum == store.configChecksum
        currentChecksum == generateChecksum(cfg)
        configChanged ==
            FalsyValue(previousChecksum) \/ currentChecksum # previousChecksum[1]
        refreshThreshold == t + REFRESH_BUFFER_SECONDS * 1000
        needsRefresh == FalsyNumber(expiresAt) \/ expiresAt[1] < refreshThreshold
    IN  configChanged \/ needsRefresh

\* createOidcToken: the signed JWT, or nothing when the key material is missing
\* (the time claims iat, nbf, exp and the random jti are left out of the payload)
createOidcToken_staticKid(store, appUrl) ==
    IF FalsyValue(store.privateKey) \/ FalsyValue(store.keyId)
    THEN << >>
    ELSE <<[header |-> [alg |-> ALGORITHM, typ |-> "JWT", kid |-> randomUUID(1)],
            payload |-> [iss |-> appUrl, sub |-> appUrl[2], aud |-> appUrl],
            signedWith |-> store.privateKey[1].d]>>

createOidcToken(store, appUrl) ==
    IF FalsyValue(store.privateKey) \/ FalsyValue(store.keyId)
    THEN << >>
    ELSE <<[header |-> [alg |-> ALGORITHM, typ |-> "JWT", kid |-> store.keyId[1]],
            payload |-> [iss |-> appUrl, sub |-> appUrl[2], aud |-> appUrl],
            signedWith |-> store.privateKey[1].d]>>

\* the token-exchange request of generateCredentials
stsRequest(cfg, oidcToken) ==
    [endpoint |-> "sts",
     audience |-> <<"//iam.googleapis.com/">> \o cfg.workloadIdentityProvider,
     subject_token |-> oidcToken,
     scope |-> cfg.scopes]

\* the impersonation request of generateCredentials
impersonateRequest(cfg, stsToken) ==
    [endpoint |-> "iam",
     serviceAccount |-> cfg.serviceAccountEmail,
     authorization |-> stsToken.access_token,
     scope |-> cfg.scopes,
     lifetime |-> IF cfg.durationSeconds # 0 THEN cfg.durationSeconds
                  ELSE DEFAULT_DURATION_SECONDS]

\* what the remote endpoints answer
stsResponse(request, ok) ==
    IF ok
    THEN [ok |-> TRUE, status |-> 200,
          access_token |-> <<[aud |-> request.audience,
                              sub |-> request.subject_token.payload.sub]>>]
    ELSE [ok |-> FALSE, status |-> 403, access_token |-> << >>]

impersonateResponse(request, ok, t) ==
    IF ok
    THEN [ok |-> TRUE, status |-> 200,
          accessToken |-> <<[sub |-> request.serviceAccount, scope |-> request.scope,
                             issued |-> t]>>,
          expireTime |-> (t \div 1000) + request.lifetime]
    ELSE [ok |-> FALSE, status |-> 403, accessToken |-> << >>, expireTime |-> 0]

----------------------------------------------------------------------------
(* onSync (src/main.ts 121-183) as the steps between its awaits *)

IdleSync ==
    [pc |-> "idle", config |-> << >>, before |-> << >>, decidedAt |-> << >>,
     oidcToken |-> << >>, stsToken |-> << >>, calls |-> << >>, result |-> << >>]

NoOp == [op |-> "none"]

Result(newStatus, description, signalUpdates) ==
    [newStatus |-> newStatus,
     customStatusDescription |-> description,
     signalUpdates |-> signalUpdates]

\* the catch block of onSync
catchResult_clears(errorMessage) ==
    Result("failed", <<"Workload Identity sync failed: ", errorMessage>>,
           <<[accessToken |-> << >>, expiresAt |-> 0]>>)

catchResult(errorMessage) ==
    Result("failed", <<"Workload Identity sync failed: ", errorMessage>>, << >>)

Return(result) == sync' = [sync EXCEPT !.pc = "returned", !.result = <<result>>]

KeysMissing_always(store) == TRUE

KeysMissing(store) ==
    FalsyValue(store.privateKey) \/ FalsyValue(store.publicKey) \/ FalsyValue(store.keyId)

\* kv.app.setMany of ensureKeyPair
storeKeyPair_mixed(store, g) ==
    [store EXCEPT !.privateKey = <<privateKeyJwk(g)>>,
                  !.publicKey = <<publicKeyJwk(g)>>,
                  !.keyId = <<randomUUID(CHOOSE h \in GeneratedKeys : h # g)>>]

storeKeyPair_partial(store, g) ==
    [store EXCEPT !.privateKey = <<privateKeyJwk(g)>>,
                  !.publicKey = <<publicKeyJwk(g)>>]

storeKeyPair(store, g) ==
    [store EXCEPT !.privateKey = <<privateKeyJwk(g)>>,
                  !.publicKey = <<publicKeyJwk(g)>>,
                  !.keyId = <<randomUUID(g)>>]

\* the check of the token-exchange response
stsResponseAccepted_unchecked(response) == TRUE

stsResponseAccepted(response) == response.ok

\* generateCredentials after the impersonation response: the store it leaves
storeCredentials_unchecked(store, response, checksum) ==
    [store EXCEPT !.expiresAt = <<ParseTime(response.expireTime)>>,
                  !.configChecksum = <<checksum>>]

storeCredentials(store, response, checksum) ==
    IF ~response.ok
    THEN store
    ELSE [store EXCEPT !.expiresAt = <<ParseTime(response.expireTime)>>,
                       !.configChecksum = <<checksum>>]

\* the object generateChecksum is applied to when the credentials are stored
checksumSubject_live(syncConfig, liveConfig) == liveConfig

checksumSubject(syncConfig, liveConfig) == syncConfig

SyncStart_setupFirst ==
    /\ sync.pc = "idle"
    /\ syncRequested' = FALSE
    /\ LET started == [IdleSync EXCEPT !.config = <<config>>, !.before = <<kv>>]
       IN  IF config.projectId = ""
           THEN sync' = [started EXCEPT
                    !.pc = "returned",
                    !.result = <<Result("failed", <<"Missing required Project ID">>, << >>)>>]
           ELSE IF config.serviceAccountEmail = "" \/ config.workloadIdentityProvider = << >>
           THEN sync' = [started EXCEPT
                    !.pc = "returned",
                    !.result = <<Result("in_progress", <<"Continue setup">>, << >>)>>]
           ELSE sync' = [started EXCEPT !.pc = "ensureKeyPair"]
    /\ lastOp' = NoOp
    /\ UNCHANGED <<now, triggerDue, kv, config, signals, cachedFrom, http>>

SyncStart ==
    /\ sync.pc = "idle"
    /\ syncRequested' = FALSE
    /\ LET started == [IdleSync EXCEPT !.config = <<config>>, !.before = <<kv>>]
       IN  IF config.projectId = ""
           THEN sync' = [started EXCEPT
                    !.pc = "returned",
                    !.result = <<Result("failed", <<"Missing required Project ID">>, << >>)>>]
           ELSE sync' = [started EXCEPT !.pc = "ensureKeyPair"]
    /\ lastOp' = NoOp
    /\ UNCHANGED <<now, triggerDue, kv, config, signals, cachedFrom, http>>

EnsureKeyPair_noop(g, generated) ==
    /\ sync.pc = "ensureKeyPair"
    /\ kv' = kv
    /\ sync' = [sync EXCEPT !.pc = "validate"]
    /\ lastOp' = NoOp
    /\ UNCHANGED <<now, triggerDue, config, syncRequested, signals, cachedFrom, http>>

EnsureKeyPair(g, generated) ==
    /\ sync.pc = "ensureKeyPair"
    /\ IF KeysMissing(kv)
       THEN IF generated
            THEN /\ kv' = storeKeyPair(kv, g)
                 /\ sync' = [sync EXCEPT !.pc = "validate"]
            ELSE /\ kv' = kv
                 /\ Return(catchResult("key generation failed"))
       ELSE /\ kv' = kv
            /\ sync' = [sync EXCEPT !.pc = "validate"]
    /\ lastOp' = NoOp
    /\ UNCHANGED <<now, triggerDue, config, syncRequested, signals, cachedFrom, http>>

\* !config.serviceAccountEmail || !config.workloadIdentityProvider
setupIncomplete_and(cfg) ==
    cfg.serviceAccountEmail = "" /\ cfg.workloadIdentityProvider = << >>

setupIncomplete(cfg) ==
    cfg.serviceAccountEmail = "" \/ cfg.workloadIdentityProvider = << >>

\* config.workloadIdentityProvider.includes("/providers/")
providerFormatValid_noSlash(provider) == Includes(provider, <<"/", "providers">>)

providerFormatValid(provider) == Includes(provider, <<"/", "providers", "/">>)

Validate ==
    /\ sync.pc = "validate"
    /\ LET cfg == sync.config[1]
       IN  IF setupIncomplete(cfg)
           THEN Return(Result("in_progress", <<"Continue setup">>, << >>))
           ELSE IF ~providerFormatValid(cfg.workloadIdentityProvider)
           THEN Return(Result("failed",
                    <<"Invalid Workload Identity Provider format. Must include /providers/PROVIDER_ID. Expected: projects/PROJECT_NUMBER/locations/global/workloadIdentityPools/POOL_ID/providers/PROVIDER_ID">>,
                    << >>))
           ELSE IF ~shouldRefreshCredentials(kv, cfg, now)
           THEN sync' = [sync EXCEPT !.pc = "returned", !.decidedAt = <<now>>,
                                     !.result = <<Result("ready", << >>, << >>)>>]
           ELSE sync' = [sync EXCEPT !.pc = "createOidcToken", !.decidedAt = <<now>>]
    /\ lastOp' = NoOp
    /\ UNCHANGED <<now, triggerDue, kv, config, syncRequested, signals, cachedFrom, http>>

CreateOidcToken ==
    /\ sync.pc = "createOidcToken"
    /\ LET token == createOidcToken(kv, AppUrl)
       IN  IF token = << >>
           THEN Return(catchResult("Private key or key ID not found"))
           ELSE sync' = [sync EXCEPT !.pc = "stsExchange", !.oidcToken = token]
    /\ lastOp' = NoOp
    /\ UNCHANGED <<now, triggerDue, kv, config, syncRequested, signals, cachedFrom, http>>

StsExchange(ok) ==
    /\ sync.pc = "stsExchange"
    /\ LET request == stsRequest(sync.config[1], sync.oidcToken[1])
           response == stsResponse(request, ok)
           call == [request |-> request, response |-> response]
       IN  IF ~stsResponseAccepted(response)
           THEN sync' = [sync EXCEPT
                    !.pc = "returned",
                    !.calls = Append(@, call),
                    !.result = <<catchResult("GCP STS token exchange failed")>>]
           ELSE sync' = [sync EXCEPT !.pc = "impersonate",
                                     !.calls = Append(@, call),
                                     !.stsToken = <<response>>]
    /\ lastOp' = NoOp
    /\ UNCHANGED <<now, triggerDue, kv, config, syncRequested, signals, cachedFrom, http>>

Impersonate(ok) ==
    /\ sync.pc = "impersonate"
    /\ LET cfg == sync.config[1]
           request == impersonateRequest(cfg, sync.stsToken[1])
           response == impersonateResponse(request, ok, now)
           call == [request |-> request, response |-> response]
           checksum == generateChecksum(checksumSubject(cfg, config))
           expiresAt == ParseTime(response.expireTime)
       IN  /\ kv' = storeCredentials(kv, response, checksum)
           /\ IF ~response.ok
              THEN /\ sync' = [sync EXCEPT
                          !.pc = "returned",
                          !.calls = Append(@, call),
                          !.result = <<catchResult("Service account impersonation failed")>>]
                   /\ cachedFrom' = cachedFrom
              ELSE /\ sync' = [sync EXCEPT
                          !.pc = "returned",
                          !.calls = Append(@, call),
                          !.result = <<Result("ready", << >>,
                                          <<[accessToken |-> response.accessToken,
                                             expiresAt |-> expiresAt]>>)>>]
                   /\ cachedFrom' = <<Append(sync.calls, call)>>
    /\ lastOp' = NoOp
    /\ UNCHANGED <<now, triggerDue, config, syncRequested, signals, http>>

\* the host takes the value onSync returned
SyncReturn ==
    /\ sync.pc = "returned"
    /\ LET result == sync.result[1]
       IN  signals' = IF result.signalUpdates = << >>
                     THEN signals
                     ELSE [accessToken |-> result.signalUpdates[1].accessToken,
                           expiresAt |-> <<result.signalUpdates[1].expiresAt>>]
    /\ sync' = IdleSync
    /\ lastOp' = NoOp
    /\ UNCHANGED <<now, triggerDue, kv, config, syncRequested, cachedFrom, http>>

----------------------------------------------------------------------------
(* schedules["refresh-credentials"].onTrigger (src/main.ts 214-245) *)

triggerShouldSync_onlyMissing(expiresAt, t) == FalsyNumber(expiresAt)

triggerShouldSync_noBuffer(expiresAt, t) ==
    IF FalsyNumber(expiresAt)
    THEN TRUE
    ELSE expiresAt[1] < t

triggerShouldSync(expiresAt, t) ==
    IF FalsyNumber(expiresAt)
    THEN TRUE
    ELSE LET refreshThreshold == t + REFRESH_BUFFER_SECONDS * 1000
         IN  expiresAt[1] < refreshThreshold

OnTrigger ==
    /\ LET lifecycleSync == triggerShouldSync(kv.expiresAt, now)
       IN  /\ syncRequested' = (syncRequested \/ lifecycleSync)
           /\ lastOp' = [op |-> "onTrigger", lifecycleSync |-> lifecycleSync]
    /\ triggerDue' = FALSE
    /\ UNCHANGED <<now, kv, config, sync, signals, cachedFrom, http>>

----------------------------------------------------------------------------
(* http.onRequest (src/main.ts 185-212) *)

DiscoveryPath == "/.well-known/openid-configuration"

JwksPath_json == "/.well-known/jwks.json"

JwksPath == "/.well-known/jwks"

\* input.request.path of the requests made
Paths ==
    {"/.well-known/openid-configuration", "/.well-known/jwks",
     "/.well-known/jwks.json", "/"}

handleOidcDiscovery_fixedUrl(appUrl) ==
    [statusCode |-> 200,
     headers |-> [contentType |-> "application/json"],
     body |-> [issuer |-> AppUrl,
               jwks_uri |-> AppUrl \o <<"/.well-known/jwks">>,
               response_types_supported |-> <<"id_token">>,
               subject_types_supported |-> <<"pairwise", "public">>,
               id_token_signing_alg_values_supported |-> <<ALGORITHM>>,
               claims_supported |-> <<"sub", "aud", "exp", "iat", "iss", "jti", "nbf">>]]

handleOidcDiscovery(appUrl) ==
    [statusCode |-> 200,
     headers |-> [contentType |-> "application/json"],
     body |-> [issuer |-> appUrl,
               jwks_uri |-> appUrl \o <<"/.well-known/jwks">>,
               response_types_supported |-> <<"id_token">>,
               subject_types_supported |-> <<"pairwise", "public">>,
               id_token_signing_alg_values_supported |-> <<ALGORITHM>>,
               claims_supported |-> <<"sub", "aud", "exp", "iat", "iss", "jti", "nbf">>]]

\* handleJwks after its two reads: the response, or nothing when it throws
handleJwks_wholeJwk(publicKey, keyId) ==
    IF FalsyValue(publicKey) \/ FalsyValue(keyId)
    THEN << >>
    ELSE <<[statusCode |-> 200,
            headers |-> [contentType |-> "application/json"],
            body |-> [keys |-> <<[kid |-> keyId[1],
                                  kty |-> "RSA",
                                  n |-> publicKey[1].n,
                                  e |-> publicKey[1].e,
                                  alg |-> publicKey[1].alg,
                                  ext |-> publicKey[1].ext,
                                  key_ops |-> publicKey[1].key_ops]>>]]>>

handleJwks(publicKey, keyId) ==
    IF FalsyValue(publicKey) \/ FalsyValue(keyId)
    THEN << >>
    ELSE <<[statusCode |-> 200,
            headers |-> [contentType |-> "application/json"],
            body |-> [keys |-> <<[kid |-> keyId[1],
                                  kty |-> "RSA",
                                  n |-> publicKey[1].n,
                                  e |-> publicKey[1].e]>>]]>>

InternalServerError_detailed ==
    [statusCode |-> 500, body |-> [error |-> "Public key or key ID not found"]]

InternalServerError ==
    [statusCode |-> 500, body |-> [error |-> "Internal server error"]]

NotFound == [statusCode |-> 404, body |-> [error |-> "Endpoint not found"]]

IdleHttp == [pc |-> "idle", publicKeyJwk |-> << >>, url |-> << >>]

\* the response onRequest sends; jwks is what handleJwks came to
respond(requestPath, jwks, appUrl) ==
    IF requestPath = DiscoveryPath
    THEN handleOidcDiscovery(appUrl)
    ELSE IF requestPath = JwksPath
    THEN IF jwks = << >> THEN InternalServerError ELSE jwks[1]
    ELSE NotFound

\* whether each of the (at most two) http.respond calls of a request goes through
RespondOutcomes == [1..2 -> BOOLEAN]

RespondsDelivered == [i \in 1..2 |-> TRUE]

\* the http.respond calls of one onRequest, in order: the one of the try block,
\* or of the catch block when handleJwks threw; and, when the one of the try
\* block itself threw, the one of the catch block after it
respondCalls_noCatch(requestPath, jwks, appUrl, outcomes) ==
    <<[response |-> respond(requestPath, jwks, appUrl), ok |-> outcomes[1]]>>

respondCalls(requestPath, jwks, appUrl, outcomes) ==
    LET first == [response |-> respond(requestPath, jwks, appUrl), ok |-> outcomes[1]]
        threw == requestPath = JwksPath /\ jwks = << >>
    IN  IF threw \/ first.ok
        THEN <<first>>
        ELSE <<first, [response |-> InternalServerError, ok |-> outcomes[2]]>>

\* what a finished onRequest is seen to have done
Answered(requestPath, appUrl, calls) ==
    [op |-> "onRequest", path |-> requestPath, url |-> appUrl,
     response |-> calls[1].response, responds |-> calls]

\* onRequest up to its first await on the store: the other paths answer at once,
\* the key-set path has read publicKey
OnRequest_generatesKeys(requestPath, appUrl, outcomes) ==
    /\ http.pc = "idle"
    /\ IF requestPath = JwksPath
       THEN /\ kv' = IF KeysMissing(kv) THEN storeKeyPair(kv, 1) ELSE kv
            /\ http' = [pc |-> "handleJwks", publicKeyJwk |-> kv'.publicKey,
                        url |-> <<appUrl>>]
            /\ lastOp' = NoOp
       ELSE /\ kv' = kv
            /\ http' = http
            /\ lastOp' = Answered(requestPath, appUrl,
                                  respondCalls(requestPath, << >>, appUrl, outcomes))
    /\ UNCHANGED <<now, triggerDue, config, syncRequested, sync, signals,
                   cachedFrom>>

OnRequest(requestPath, appUrl, outcomes) ==
    /\ http.pc = "idle"
    /\ IF requestPath = JwksPath
       THEN /\ http' = [pc |-> "handleJwks", publicKeyJwk |-> kv.publicKey,
                        url |-> <<appUrl>>]
            /\ lastOp' = NoOp
       ELSE /\ http' = http
            /\ lastOp' = Answered(requestPath, appUrl,
                                  respondCalls(requestPath, << >>, appUrl, outcomes))
    /\ UNCHANGED <<now, triggerDue, kv, config, syncRequested, sync, signals,
                   cachedFrom>>

\* handleJwks reads keyId and onRequest answers
HandleJwks(outcomes) ==
    /\ http.pc = "handleJwks"
    /\ lastOp' = Answered(JwksPath, http.url[1],
                          respondCalls(JwksPath,
                                       handleJwks(http.publicKeyJwk, kv.keyId),
                                       http.url[1], outcomes))
    /\ http' = IdleHttp
    /\ UNCHANGED <<now, triggerDue, kv, config, syncRequested, sync, signals,
                   cachedFrom>>

----------------------------------------------------------------------------
(* The environment: the clock and the host's configuration form *)

ClockAdvance(limit) ==
    /\ now + TickMs <= limit
    /\ now' = now + TickMs
    /\ lastOp' = NoOp
    /\ UNCHANGED <<kv, config, syncRequested, sync, signals, cachedFrom, http>>

Tick == ClockAdvance(MaxNow) /\ UNCHANGED triggerDue

EditConfig(c) ==
    /\ c # config
    /\ config' = c
    /\ lastOp' = NoOp
    /\ UNCHANGED <<now, triggerDue, kv, syncRequested, sync, signals, cachedFrom, http>>

----------------------------------------------------------------------------
(* The installation: any order of host syncs, edits, triggers and requests *)

Init ==
    /\ now = StartTime
    /\ triggerDue = FALSE
    /\ kv = EmptyStore
    /\ config \in Configs
    /\ syncRequested = FALSE
    /\ sync = IdleSync
    /\ signals = [accessToken |-> << >>, expiresAt |-> << >>]
    /\ cachedFrom = << >>
    /\ http = IdleHttp
    /\ lastOp = NoOp

Next ==
    \/ Tick
    \/ \E c \in Configs : EditConfig(c)
    \/ OnTrigger
    \/ \E requestPath \in Paths : OnRequest(requestPath, AppUrl, RespondsDelivered)
    \/ HandleJwks(RespondsDelivered)
    \/ SyncStart
    \/ \E g \in GeneratedKeys, generated \in BOOLEAN : EnsureKeyPair(g, generated)
    \/ Validate
    \/ CreateOidcToken
    \/ \E ok \in BOOLEAN : StsExchange(ok)
    \/ \E ok \in BOOLEAN : Impersonate(ok)
    \/ SyncReturn

Spec == Init /\ [][Next]_vars

----------------------------------------------------------------------------
(* The installation on schedule: a valid configuration, the trigger served at *)
(* every 10-minute mark, every requested sync run at once, every remote call  *)
(* and key generation succeeding                                              *)

ValidConfig(cfg) ==
    /\ cfg.projectId # ""
    /\ cfg.serviceAccountEmail # ""
    /\ cfg.workloadIdentityProvider # << >>
    /\ Includes(cfg.workloadIdentityProvider, <<"/", "providers", "/">>)

SchedInit ==
    /\ now \in {StartTime + i * TickMs : i \in 0..(ScheduleIntervalMs \div TickMs - 1)}
    /\ triggerDue = FALSE
    /\ kv = EmptyStore
    /\ config \in {c \in Configs : ValidConfig(c)}
    /\ syncRequested = TRUE
    /\ sync = IdleSync
    /\ signals = [accessToken |-> << >>, expiresAt |-> << >>]
    /\ cachedFrom = << >>
    /\ http = IdleHttp
    /\ lastOp = NoOp

SchedTick ==
    /\ ~triggerDue /\ ~syncRequested /\ sync.pc = "idle"
    /\ ClockAdvance(SchedMaxNow)
    /\ triggerDue' = ((now + TickMs) % ScheduleIntervalMs = 0)

SchedTrigger == triggerDue /\ OnTrigger

SchedSyncStart == syncRequested /\ SyncStart

SchedNext ==
    \/ SchedTick
    \/ SchedTrigger
    \/ SchedSyncStart
    \/ \E g \in GeneratedKeys : EnsureKeyPair(g, TRUE)
    \/ Validate
    \/ CreateOidcToken
    \/ StsExchange(TRUE)
    \/ Impersonate(TRUE)
    \/ SyncReturn

SchedSpec == SchedInit /\ [][SchedNext]_vars

----------------------------------------------------------------------------
(* shouldRefreshCredentials on its own: every store content, config and time *)

SampleTimes == {StartTime + i * TickMs : i \in 0..MaxTicks}

RefreshInit ==
    /\ now \in {StartTime + i * TickMs : i \in 0..2}
    /\ triggerDue = FALSE
    /\ \E expiresAt \in {<< >>} \cup {<<t>> : t \in SampleTimes},
          checksum \in {<< >>} \cup {<<generateChecksum(c)>> : c \in Configs} :
            kv = [storeKeyPair(EmptyStore, 1) EXCEPT !.expiresAt = expiresAt,
                                                     !.configChecksum = checksum]
    /\ config \in {c \in Configs : ValidConfig(c)}
    /\ syncRequested = FALSE
    /\ sync = IdleSync
    /\ signals = [accessToken |-> << >>, expiresAt |-> << >>]
    /\ cachedFrom = << >>
    /\ http = IdleHttp
    /\ lastOp = NoOp

RefreshDecision ==
    /\ lastOp = NoOp
    /\ lastOp' = [op |-> "shouldRefreshCredentials",
                  result |-> shouldRefreshCredentials(kv, config, now)]
    /\ UNCHANGED <<now, triggerDue, kv, config, syncRequested, sync, signals,
                   cachedFrom, http>>

RefreshNext == RefreshDecision

RefreshSpec == RefreshInit /\ [][RefreshNext]_vars

----------------------------------------------------------------------------
(* onSync on its own: one sync at a time on every drawn configuration and   *)
(* every store a sync can find                                              *)

ProviderPathNoId == PoolPath \o <<"/", "providers">>

DrawnConfigs ==
    {MakeConfig(project, email, provider, DefaultScopes, ConfigA.durationSeconds) :
        project \in {"", "p1"},
        email \in {"", "sa1@p1"},
        provider \in {<< >>, PoolPath, ProviderPathNoId, ProviderPath}}

\* the store and the calls of a first sync of cfg that succeeded at time t
IssuedCalls(cfg, g, t) ==
    LET token == createOidcToken(storeKeyPair(EmptyStore, g), AppUrl)[1]
        request1 == stsRequest(cfg, token)
        response1 == stsResponse(request1, TRUE)
        request2 == impersonateRequest(cfg, response1)
        response2 == impersonateResponse(request2, TRUE, t)
    IN  <<[request |-> request1, response |-> response1],
          [request |-> request2, response |-> response2]>>

IssuedStore(cfg, g, t) ==
    storeCredentials(storeKeyPair(EmptyStore, g),
                     IssuedCalls(cfg, g, t)[2].response,
                     generateChecksum(cfg))

IssueTimes == {StartTime - i * TickMs : i \in {0, 2, 3}}

SyncInit ==
    /\ now = StartTime
    /\ triggerDue = FALSE
    /\ \/ kv = EmptyStore /\ cachedFrom = << >>
       \/ kv = storeKeyPair(EmptyStore, 1) /\ cachedFrom = << >>
       \/ \E t \in IssueTimes :
              /\ kv = IssuedStore(ConfigA, 1, t)
              /\ cachedFrom = <<IssuedCalls(ConfigA, 1, t)>>
    /\ config \in DrawnConfigs
    /\ syncRequested = TRUE
    /\ sync = IdleSync
    /\ signals = [accessToken |-> << >>, expiresAt |-> << >>]
    /\ http = IdleHttp
    /\ lastOp = NoOp

SyncNext ==
    \/ SyncStart
    \/ \E g \in GeneratedKeys, generated \in BOOLEAN : EnsureKeyPair(g, generated)
    \/ Validate
    \/ CreateOidcToken
    \/ \E ok \in BOOLEAN : StsExchange(ok)
    \/ \E ok \in BOOLEAN : Impersonate(ok)
    \/ SyncReturn

SyncSpec == SyncInit /\ [][SyncNext]_vars

----------------------------------------------------------------------------
(* generateChecksum on its own: pairs of configuration objects that differ  *)
(* in one value or in the order of their members                            *)

ReorderedFields ==
    <<"durationSeconds", "scopes", "projectId", "workloadIdentityProvider",
      "serviceAccountEmail">>

ChecksumConfigs ==
    LET values == {ConfigA,
                   [ConfigA EXCEPT !.projectId = "p2"],
                   [ConfigA EXCEPT !.serviceAccountEmail = ConfigB.serviceAccountEmail],
                   [ConfigA EXCEPT !.workloadIdentityProvider = PoolPath \o <<"/", "providers", "/", "y">>],
                   [ConfigA EXCEPT !.scopes = ConfigB.scopes],
                   [ConfigA EXCEPT !.durationSeconds = ConfigB.durationSeconds]}
    IN  {[c EXCEPT !.fieldOrder = order] :
            c \in values, order \in {CanonicalOrder, ReorderedFields}}

ChecksumInit ==
    /\ now = StartTime
    /\ triggerDue = FALSE
    /\ kv = EmptyStore
    /\ config \in ChecksumConfigs
    /\ syncRequested = FALSE
    /\ sync = IdleSync
    /\ signals = [accessToken |-> << >>, expiresAt |-> << >>]
    /\ cachedFrom = << >>
    /\ http = IdleHttp
    /\ lastOp = NoOp

GenerateChecksum(other) ==
    /\ lastOp = NoOp
    /\ lastOp' = [op |-> "generateChecksum",
                  other |-> other,
                  checksum |-> generateChecksum(config),
                  otherChecksum |-> generateChecksum(other)]
    /\ UNCHANGED <<now, triggerDue, kv, config, syncRequested, sync, signals,
                   cachedFrom, http>>

ChecksumNext == \E other \in ChecksumConfigs : GenerateChecksum(other)

ChecksumSpec == ChecksumInit /\ [][ChecksumNext]_vars

----------------------------------------------------------------------------
(* http.onRequest on its own: every path and base URL against every store a *)
(* request can find, each http.respond call going through or throwing       *)

AppUrls == {AppUrl, <<"https://", "other.flows.example">>}

HttpInit ==
    /\ now = StartTime
    /\ triggerDue = FALSE
    /\ \/ kv = EmptyStore /\ cachedFrom = << >>
       \/ \E g \in GeneratedKeys : kv = storeKeyPair(EmptyStore, g) /\ cachedFrom = << >>
       \/ \E t \in IssueTimes :
              /\ kv = IssuedStore(ConfigA, 1, t)
              /\ cachedFrom = <<IssuedCalls(ConfigA, 1, t)>>
    /\ config \in Configs
    /\ syncRequested = FALSE
    /\ sync = IdleSync
    /\ signals = [accessToken |-> << >>, expiresAt |-> << >>]
    /\ http = IdleHttp
    /\ lastOp = NoOp

HttpNext ==
    \/ \E requestPath \in Paths, appUrl \in AppUrls, outcomes \in RespondOutcomes :
           OnRequest(requestPath, appUrl, outcomes)
    \/ \E outcomes \in RespondOutcomes : HandleJwks(outcomes)

HttpSpec == HttpInit /\ [][HttpNext]_vars

----------------------------------------------------------------------------
(* Properties *)

\* C1: shouldRefreshCredentials returns true exactly when no expiresAt is
\* stored, or the stored expiresAt is strictly below now + 300 s, or the
\* checksum of the config differs from the stored one (an absent stored
\* checksum being a difference).
C1_RefreshTruthTable ==
    lastOp.op = "shouldRefreshCredentials" =>
        LET noExpiry == kv.expiresAt = << >>
            expiringSoon == kv.expiresAt # << >> /\ kv.expiresAt[1] < now + 300 * 1000
            mismatch == \/ kv.configChecksum = << >>
                        \/ kv.configChecksum[1] # generateChecksum(config)
        IN  lastOp.result <=> (noExpiry \/ expiringSoon \/ mismatch)

C1_Witness ==
    /\ lastOp.op = "shouldRefreshCredentials"
    /\ ~lastOp.result
    /\ kv.expiresAt = <<now + 300 * 1000>>

\* C2: a first sync (valid config, no stored RefreshState) calls the token
\* exchange first and the impersonation second, each at most once and the
\* second whenever the first succeeded; when both succeed the expiresAt parsed
\* from the response's expireTime and the config's checksum are stored and the
\* sync returns ready with the new accessToken and that expiresAt; it is never
\* ready without the two calls.
C2_FirstSync ==
    (/\ sync.pc = "returned"
     /\ ValidConfig(sync.config[1])
     /\ sync.before[1].expiresAt = << >>
     /\ sync.before[1].configChecksum = << >>) =>
        LET calls == sync.calls
            result == sync.result[1]
            bothOk == Len(calls) = 2 /\ calls[1].response.ok /\ calls[2].response.ok
        IN  /\ Len(calls) <= 2
            /\ Len(calls) >= 1 => calls[1].request.endpoint = "sts"
            /\ Len(calls) = 2 => calls[2].request.endpoint = "iam"
            /\ (Len(calls) >= 1 /\ calls[1].response.ok) => Len(calls) = 2
            /\ calls = << >> =>
                   result.customStatusDescription[2] = "key generation failed"
            /\ result.newStatus = "ready" <=> bothOk
            /\ bothOk =>
                   /\ kv.expiresAt = <<calls[2].response.expireTime * 1000>>
                   /\ kv.configChecksum = <<generateChecksum(sync.config[1])>>
                   /\ result.signalUpdates =
                          <<[accessToken |-> calls[2].response.accessToken,
                             expiresAt |-> calls[2].response.expireTime * 1000]>>
                   /\ calls[2].response.accessToken # << >>

C2_Witness ==
    /\ sync.pc = "returned"
    /\ ValidConfig(sync.config[1])
    /\ sync.before[1].expiresAt = << >>
    /\ sync.before[1].configChecksum = << >>
    /\ sync.result[1].newStatus = "ready"
    /\ Len(sync.calls) = 2

\* C3: a sync with a valid config whose checksum is the stored one, decided
\* while the stored expiresAt is at or beyond now + 300 s, makes no remote
\* call, leaves the store as it found it, returns ready and no signalUpdates.
C3_NoRefreshNeeded ==
    (/\ sync.pc = "returned"
     /\ ValidConfig(sync.config[1])
     /\ sync.decidedAt # << >>
     /\ sync.before[1].configChecksum = <<generateChecksum(sync.config[1])>>
     /\ sync.before[1].expiresAt # << >>
     /\ sync.before[1].expiresAt[1] >= sync.decidedAt[1] + 300 * 1000) =>
        /\ sync.calls = << >>
        /\ kv = sync.before[1]
        /\ sync.result[1].newStatus = "ready"
        /\ sync.result[1].signalUpdates = << >>

C3_Witness ==
    /\ sync.pc = "returned"
    /\ ValidConfig(sync.config[1])
    /\ sync.decidedAt # << >>
    /\ sync.before[1].configChecksum = <<generateChecksum(sync.config[1])>>
    /\ sync.before[1].expiresAt = <<sync.decidedAt[1] + 300 * 1000>>
    /\ sync.result[1].newStatus = "ready"

ThrownFailure ==
    /\ sync.pc = "returned"
    /\ sync.result[1].newStatus = "failed"
    /\ sync.result[1].customStatusDescription[1] = "Workload Identity sync failed: "

\* C4 as stated: after a sync whose refresh attempt threw, every store key
\* holds the value it had when the sync started.
C4_NothingPersisted == ThrownFailure => kv = sync.before[1]

\* C4: after a sync whose refresh attempt threw, expiresAt and configChecksum
\* hold the values they had when the sync started; privateKey, publicKey and
\* keyId are unchanged when all three were stored at the start, and otherwise
\* are either unchanged (key generation failed) or the newly generated pair.
C4_RefreshStateNotPersisted ==
    ThrownFailure =>
        LET before == sync.before[1]
        IN  /\ kv.expiresAt = before.expiresAt
            /\ kv.configChecksum = before.configChecksum
            /\ ~KeysMissing(before) => kv = before
            /\ KeysMissing(before) =>
                   \/ kv = before /\ sync.calls = << >>
                   \/ \E g \in GeneratedKeys :
                          /\ kv.privateKey = <<privateKeyJwk(g)>>
                          /\ kv.publicKey = <<publicKeyJwk(g)>>
                          /\ kv.keyId = <<randomUUID(g)>>

C4_Witness ==
    /\ ThrownFailure
    /\ KeysMissing(sync.before[1])
    /\ ~KeysMissing(kv)
    /\ Len(sync.calls) = 2

\* C5: a sync that returns failed or in_progress returns no signalUpdates and
\* leaves the stored expiresAt and configChecksum as they were; the published
\* signals change only when a sync that returned ready is taken over.
C5_FailureKeepsCredential ==
    /\ [](sync.pc = "returned" /\ sync.result[1].newStatus \in {"failed", "in_progress"} =>
            /\ sync.result[1].signalUpdates = << >>
            /\ kv.expiresAt = sync.before[1].expiresAt
            /\ kv.configChecksum = sync.before[1].configChecksum)
    /\ [][signals' # signals =>
            sync.pc = "returned" /\ sync.result[1].newStatus = "ready"]_vars

C5_Witness ==
    /\ sync.pc = "returned"
    /\ sync.result[1].newStatus = "failed"
    /\ Len(sync.calls) >= 1
    /\ sync.before[1].expiresAt # << >>
    /\ signals.accessToken # << >>

\* C6: the impersonation call is only ever the second call of a sync, after a
\* token exchange that answered 2xx, and carries that answer's token; a
\* token exchange that answered non-2xx ends the attempt with that single
\* call; signalUpdates, when returned, hold the accessToken and the parsed
\* expireTime of a 2xx impersonation answer.
C6_SequentialExchange ==
    LET calls == sync.calls
    IN  /\ Len(calls) <= 2
        /\ Len(calls) >= 1 => calls[1].request.endpoint = "sts"
        /\ Len(calls) = 2 =>
               /\ calls[2].request.endpoint = "iam"
               /\ calls[1].response.ok
               /\ calls[1].response.access_token # << >>
               /\ calls[2].request.authorization = calls[1].response.access_token
        /\ (Len(calls) >= 1 /\ ~calls[1].response.ok) =>
               /\ Len(calls) = 1
               /\ sync.pc = "returned"
               /\ sync.result[1].newStatus = "failed"
               /\ sync.result[1].signalUpdates = << >>
        /\ (sync.pc = "returned" /\ sync.result[1].signalUpdates # << >>) =>
               /\ Len(calls) = 2
               /\ calls[2].response.ok
               /\ calls[2].response.accessToken # << >>
               /\ sync.result[1].signalUpdates[1].accessToken =
                      calls[2].response.accessToken
               /\ sync.result[1].signalUpdates[1].expiresAt =
                      calls[2].response.expireTime * 1000

C6_Witness ==
    /\ sync.pc = "returned"
    /\ Len(sync.calls) = 1
    /\ ~sync.calls[1].response.ok

\* C7: expiresAt and configChecksum are stored together or not at all; the
\* stored checksum is the checksum of a configuration whose provider, scopes,
\* service account and duration are those of the two successful calls that
\* produced the stored expiresAt; and the two keys change only in the step
\* that takes a 2xx impersonation answer, which leaves both present.
C7_ChecksumOfProducingConfig ==
    /\ []((kv.expiresAt = << >> <=> kv.configChecksum = << >>)
          /\ (kv.configChecksum # << >> =>
                /\ cachedFrom # << >>
                /\ cachedFrom[1][1].response.ok
                /\ cachedFrom[1][2].response.ok
                /\ kv.expiresAt = <<cachedFrom[1][2].response.expireTime * 1000>>
                /\ \E c \in Configs :
                      /\ kv.configChecksum = <<generateChecksum(c)>>
                      /\ cachedFrom[1][1].request.audience =
                             <<"//iam.googleapis.com/">> \o c.workloadIdentityProvider
                      /\ cachedFrom[1][1].request.scope = c.scopes
                      /\ cachedFrom[1][2].request.serviceAccount = c.serviceAccountEmail
                      /\ cachedFrom[1][2].request.scope = c.scopes
                      /\ cachedFrom[1][2].request.lifetime = c.durationSeconds))
    /\ [][(kv'.expiresAt # kv.expiresAt \/ kv'.configChecksum # kv.configChecksum) =>
            /\ sync.pc = "impersonate"
            /\ sync'.pc = "returned"
            /\ sync'.result[1].newStatus = "ready"
            /\ kv'.expiresAt # << >>
            /\ kv'.configChecksum # << >>]_vars

C7_Witness ==
    /\ kv.configChecksum # << >>
    /\ ValidConfig(config)
    /\ kv.configChecksum # <<generateChecksum(config)>>
    /\ sync.pc = "returned"
    /\ sync.result[1].signalUpdates # << >>

\* C8: a sync with a valid config whose checksum differs from the stored one,
\* decided while the stored expiresAt is at or beyond now + 300 s, calls the
\* token exchange and, when that succeeds, the impersonation; when both
\* succeed it returns ready and the stored configChecksum is the checksum of
\* that config.
C8_ConfigEditForcesRotation ==
    (/\ sync.pc = "returned"
     /\ ValidConfig(sync.config[1])
     /\ sync.decidedAt # << >>
     /\ sync.before[1].configChecksum # << >>
     /\ sync.before[1].configChecksum # <<generateChecksum(sync.config[1])>>
     /\ sync.before[1].expiresAt # << >>
     /\ sync.before[1].expiresAt[1] >= sync.decidedAt[1] + 300 * 1000) =>
        LET calls == sync.calls
            bothOk == Len(calls) = 2 /\ calls[1].response.ok /\ calls[2].response.ok
        IN  /\ Len(calls) >= 1
            /\ calls[1].request.endpoint = "sts"
            /\ calls[1].response.ok => (Len(calls) = 2 /\ calls[2].request.endpoint = "iam")
            /\ sync.result[1].newStatus = "ready" <=> bothOk
            /\ bothOk => kv.configChecksum = <<generateChecksum(sync.config[1])>>

C8_Witness ==
    /\ sync.pc = "returned"
    /\ ValidConfig(sync.config[1])
    /\ sync.decidedAt # << >>
    /\ sync.before[1].configChecksum # << >>
    /\ sync.before[1].configChecksum # <<generateChecksum(sync.config[1])>>
    /\ sync.before[1].expiresAt # << >>
    /\ sync.before[1].expiresAt[1] > sync.decidedAt[1] + 300 * 1000
    /\ sync.result[1].newStatus = "ready"
    /\ kv.configChecksum = <<generateChecksum(sync.config[1])>>

\* C9: on schedule (the trigger served at every 10-minute mark, every
\* requested sync run at once, every remote call succeeding) the stored
\* expiresAt of an issued credential is never in the past.
C9_NeverExpired == kv.expiresAt # << >> => kv.expiresAt[1] >= now

\* C10: a firing of the trigger calls lifecycle.sync() exactly when no
\* expiresAt is stored or the stored expiresAt is strictly below now + 300 s;
\* the firing itself writes no store key, makes no remote call, and requests
\* a sync only through that call.
C10_TriggerDecision ==
    [][lastOp'.op = "onTrigger" =>
        /\ lastOp'.lifecycleSync <=>
               (kv.expiresAt = << >> \/ kv.expiresAt[1] < now + 300 * 1000)
        /\ syncRequested' = (syncRequested \/ lastOp'.lifecycleSync)
        /\ kv' = kv
        /\ sync' = sync
        /\ signals' = signals]_vars

C10_Witness ==
    /\ lastOp.op = "onTrigger"
    /\ ~lastOp.lifecycleSync
    /\ ~syncRequested
    /\ kv.expiresAt = <<now + 300 * 1000>>

\* a sync that has returned failed because a remote call answered non-2xx
RemoteFailure ==
    /\ ThrownFailure
    /\ Len(sync.calls) >= 1
    /\ ~sync.calls[Len(sync.calls)].response.ok

\* C11 as stated: the firing of the trigger that follows a sync failed on a
\* remote call requests a resync.
C11_NextFiringResyncs ==
    [][(RemoteFailure /\ lastOp'.op = "onTrigger") => lastOp'.lifecycleSync]_vars

\* C11: the firing of the trigger that follows a sync failed on a remote call
\* requests a resync exactly when the expiresAt stored before that sync is
\* absent or strictly below now + 300 s at the firing; it always does when
\* the failed refresh was not caused by a changed configuration; the failed
\* sync itself made no second attempt at the failing call.
C11_FiringResyncsWhenDue ==
    [][(RemoteFailure /\ lastOp'.op = "onTrigger") =>
        LET before == sync.before[1]
        IN  /\ lastOp'.lifecycleSync <=>
                   (before.expiresAt = << >> \/ before.expiresAt[1] < now + 300 * 1000)
            /\ lastOp'.lifecycleSync => syncRequested'
            /\ before.configChecksum = <<generateChecksum(sync.config[1])>> =>
                   lastOp'.lifecycleSync
            /\ Len(sync.calls) <= 2
            /\ Len(sync.calls) = 2 => sync.calls[1].response.ok]_vars

C11_Witness ==
    /\ RemoteFailure
    /\ lastOp.op = "onTrigger"
    /\ lastOp.lifecycleSync
    /\ syncRequested
    /\ sync.before[1].expiresAt # << >>
    /\ sync.before[1].configChecksum = <<generateChecksum(sync.config[1])>>

\* C12: in every state the store holds privateKey, publicKey and keyId all
\* three or none of them, the three being the parts of one generated pair;
\* every step writes the three together or none; and the store a sync found
\* when it started was in that shape too.
C12_KeyTripleAllOrNone ==
    /\ [](LET Whole(store) ==
                  \/ /\ store.privateKey = << >>
                     /\ store.publicKey = << >>
                     /\ store.keyId = << >>
                  \/ \E g \in GeneratedKeys :
                         /\ store.privateKey = <<privateKeyJwk(g)>>
                         /\ store.publicKey = <<publicKeyJwk(g)>>
                         /\ store.keyId = <<randomUUID(g)>>
          IN  Whole(kv) /\ (sync.before # << >> => Whole(sync.before[1])))
    /\ [][/\ (kv'.privateKey # kv.privateKey) <=> (kv'.publicKey # kv.publicKey)
          /\ (kv'.publicKey # kv.publicKey) <=> (kv'.keyId # kv.keyId)]_vars

C12_Witness ==
    /\ sync.pc = "validate"
    /\ sync.before[1].publicKey = << >>
    /\ kv.privateKey # << >> /\ kv.publicKey # << >> /\ kv.keyId # << >>
    /\ http.pc = "handleJwks"
    /\ http.publicKeyJwk = << >>

\* C13: once privateKey, publicKey and keyId are all stored no step changes
\* any of them; they change only in the ensureKeyPair step of a sync that
\* found at least one of them missing, which leaves all three stored.
C13_KeyPairGeneratedOnce ==
    [][LET Complete(store) ==
               store.privateKey # << >> /\ store.publicKey # << >> /\ store.keyId # << >>
           Keys(store) == <<store.privateKey, store.publicKey, store.keyId>>
       IN  /\ Complete(kv) => Keys(kv') = Keys(kv)
           /\ Keys(kv') # Keys(kv) =>
                  /\ sync.pc = "ensureKeyPair"
                  /\ ~Complete(kv)
                  /\ Complete(kv')]_vars

C13_Witness ==
    /\ sync.pc = "validate"
    /\ sync.before[1].privateKey # << >>
    /\ sync.before[1].publicKey # << >>
    /\ sync.before[1].keyId # << >>
    /\ kv = sync.before[1]
    /\ kv.expiresAt # << >>

\* C14: a sync whose config has a projectId but an empty serviceAccountEmail
\* or an empty workloadIdentityProvider makes no remote call and no refresh
\* decision, leaves expiresAt and configChecksum alone and, ensureKeyPair
\* having stored or found the key pair, returns in_progress with the
\* description "Continue setup" and no signalUpdates.
C14_ContinueSetup ==
    (/\ sync.pc = "returned"
     /\ sync.config[1].projectId # ""
     /\ \/ sync.config[1].serviceAccountEmail = ""
        \/ sync.config[1].workloadIdentityProvider = << >>) =>
        /\ sync.calls = << >>
        /\ sync.oidcToken = << >>
        /\ sync.decidedAt = << >>
        /\ kv.expiresAt = sync.before[1].expiresAt
        /\ kv.configChecksum = sync.before[1].configChecksum
        /\ kv.privateKey # << >> =>
               sync.result[1] = [newStatus |-> "in_progress",
                                 customStatusDescription |-> <<"Continue setup">>,
                                 signalUpdates |-> << >>]

C14_Witness ==
    /\ sync.pc = "returned"
    /\ sync.config[1].projectId # ""
    /\ sync.config[1].serviceAccountEmail = ""
    /\ sync.config[1].workloadIdentityProvider = ProviderPath
    /\ sync.result[1].newStatus = "in_progress"
    /\ sync.before[1].expiresAt # << >>

\* C15 as stated: a sync (that did not throw) whose workloadIdentityProvider
\* is non-empty and lacks "/providers/" returns failed with the format error
\* and makes no remote call.
C15_BadProviderFails ==
    (/\ sync.pc = "returned"
     /\ ~ThrownFailure
     /\ sync.config[1].workloadIdentityProvider # << >>
     /\ ~Includes(sync.config[1].workloadIdentityProvider, <<"/", "providers", "/">>)) =>
        /\ sync.result[1].newStatus = "failed"
        /\ sync.result[1].customStatusDescription[1] =
               "Invalid Workload Identity Provider format. Must include /providers/PROVIDER_ID. Expected: projects/PROJECT_NUMBER/locations/global/workloadIdentityPools/POOL_ID/providers/PROVIDER_ID"
        /\ sync.calls = << >>

\* C15: a sync whose config has a projectId and a serviceAccountEmail and
\* whose workloadIdentityProvider is non-empty and lacks "/providers/" makes
\* no remote call and no refresh decision whatever RefreshState is stored,
\* leaves expiresAt and configChecksum alone and, ensureKeyPair having stored
\* or found the key pair, returns failed with the format error and no
\* signalUpdates.
C15_BadProviderFailsAfterSetup ==
    (/\ sync.pc = "returned"
     /\ sync.config[1].projectId # ""
     /\ sync.config[1].serviceAccountEmail # ""
     /\ sync.config[1].workloadIdentityProvider # << >>
     /\ ~Includes(sync.config[1].workloadIdentityProvider, <<"/", "providers", "/">>)) =>
        /\ sync.calls = << >>
        /\ sync.oidcToken = << >>
        /\ sync.decidedAt = << >>
        /\ kv.expiresAt = sync.before[1].expiresAt
        /\ kv.configChecksum = sync.before[1].configChecksum
        /\ kv.privateKey # << >> =>
               sync.result[1] =
                   [newStatus |-> "failed",
                    customStatusDescription |->
                        <<"Invalid Workload Identity Provider format. Must include /providers/PROVIDER_ID. Expected: projects/PROJECT_NUMBER/locations/global/workloadIdentityPools/POOL_ID/providers/PROVIDER_ID">>,
                    signalUpdates |-> << >>]

C15_Witness ==
    /\ sync.pc = "returned"
    /\ sync.config[1].projectId # ""
    /\ sync.config[1].serviceAccountEmail # ""
    /\ sync.config[1].workloadIdentityProvider = ProviderPathNoId
    /\ sync.result[1].newStatus = "failed"
    /\ sync.calls = << >>
    /\ sync.before[1].expiresAt # << >>
    /\ sync.before[1].expiresAt[1] < now + 300 * 1000

\* C16: two configuration objects have the same checksum exactly when their
\* projectId, serviceAccountEmail, workloadIdentityProvider, scopes and
\* durationSeconds are the same, whatever the order of their members.
C16_ChecksumDeterminism ==
    lastOp.op = "generateChecksum" =>
        LET other == lastOp.other
            sameValues ==
                /\ config.projectId = other.projectId
                /\ config.serviceAccountEmail = other.serviceAccountEmail
                /\ config.workloadIdentityProvider = other.workloadIdentityProvider
                /\ config.scopes = other.scopes
                /\ config.durationSeconds = other.durationSeconds
        IN  sameValues <=> (lastOp.checksum = lastOp.otherChecksum)

\* C17: a token issued by createOidcToken is signed with the stored private
\* key and carries the stored keyId and RS256 in its header; the key set
\* served from the store answers 200 with a key under that kid which is the
\* public half of the pair whose private half signed the token; RS256 is the
\* algorithm the discovery document advertises; and every key set actually
\* answered 200 while the token is in use holds that key under that kid.
C17_TokenVerifiesAgainstJwks ==
    sync.oidcToken # << >> =>
        LET token == sync.oidcToken[1]
            Verifies(key) ==
                /\ key.kid = token.header.kid
                /\ key.kty = "RSA"
                /\ \E g \in GeneratedKeys :
                       /\ token.signedWith = <<"d", g>>
                       /\ key.n = <<"n", g>>
                       /\ key.e = "AQAB"
            served == handleJwks(kv.publicKey, kv.keyId)
            algs == handleOidcDiscovery(AppUrl).body.id_token_signing_alg_values_supported
        IN  /\ kv.privateKey # << >> /\ token.signedWith = kv.privateKey[1].d
            /\ token.header.kid = kv.keyId[1]
            /\ token.header.alg = "RS256"
            /\ \E i \in 1..Len(algs) : algs[i] = token.header.alg
            /\ served # << >>
            /\ served[1].statusCode = 200
            /\ \E i \in 1..Len(served[1].body.keys) : Verifies(served[1].body.keys[i])
            /\ (/\ lastOp.op = "onRequest"
                /\ lastOp.path = "/.well-known/jwks"
                /\ lastOp.response.statusCode = 200) =>
                   \E i \in 1..Len(lastOp.response.body.keys) :
                       Verifies(lastOp.response.body.keys[i])

C17_Witness ==
    /\ sync.oidcToken # << >>
    /\ sync.oidcToken[1].header.kid = randomUUID(2)
    /\ lastOp.op = "onRequest"
    /\ lastOp.path = "/.well-known/jwks"
    /\ lastOp.response.statusCode = 200

\* C18: whatever the steps of a sync that fall between the two store reads
\* of a key-set request, the answer is either the 500 or a 200 with one key
\* whose kid, n and e are those of one generated pair, that pair being the
\* one in the store; it is the 500 exactly when one of the two reads found
\* nothing, which happens even with the pair stored when the write fell
\* between the reads.
C18_JwksConsistentUnderSync ==
    [][(http.pc = "handleJwks" /\ lastOp'.op = "onRequest") =>
        LET response == lastOp'.response
        IN  /\ lastOp'.path = "/.well-known/jwks"
            /\ response.statusCode \in {200, 500}
            /\ response.statusCode = 500 <=>
                   (http.publicKeyJwk = << >> \/ kv.keyId = << >>)
            /\ response.statusCode = 200 =>
                   /\ Len(response.body.keys) = 1
                   /\ \E g \in GeneratedKeys :
                          /\ response.body.keys[1].kid = <<"uuid", g>>
                          /\ response.body.keys[1].n = <<"n", g>>
                          /\ response.body.keys[1].e = "AQAB"
                          /\ kv.publicKey # << >>
                          /\ kv.publicKey[1].n = <<"n", g>>
                          /\ kv.publicKey[1].e = "AQAB"
                          /\ kv.keyId = <<<<"uuid", g>>>>
                          /\ kv.privateKey # << >>
                          /\ kv.privateKey[1].d = <<"d", g>>]_vars

C18_Witness ==
    /\ lastOp.op = "onRequest"
    /\ lastOp.path = "/.well-known/jwks"
    /\ lastOp.response.statusCode = 500
    /\ kv.publicKey # << >>
    /\ kv.keyId # << >>
    /\ sync.pc = "validate"

\* C19: a request for /.well-known/openid-configuration is answered 200 with
\* the discovery document; a request for /.well-known/jwks is answered 200
\* with a key set of one RSA key, or 500; a request for any other path is
\* answered 404 with the body {error: "Endpoint not found"}.
C19_RoutingByPath ==
    lastOp.op = "onRequest" =>
        LET response == lastOp.response
        IN  CASE lastOp.path = "/.well-known/openid-configuration" ->
                     /\ response.statusCode = 200
                     /\ response.headers = [contentType |-> "application/json"]
                     /\ response.body.issuer = AppUrl
                     /\ response.body.jwks_uri = AppUrl \o <<"/.well-known/jwks">>
                     /\ response.body.id_token_signing_alg_values_supported = <<"RS256">>
              [] lastOp.path = "/.well-known/jwks" ->
                     \/ /\ response.statusCode = 200
                        /\ response.headers = [contentType |-> "application/json"]
                        /\ Len(response.body.keys) = 1
                        /\ response.body.keys[1].kty = "RSA"
                        /\ <<response.body.keys[1].kid>> = kv.keyId
                     \/ response.statusCode = 500
              [] OTHER ->
                     response = [statusCode |-> 404,
                                 body |-> [error |-> "Endpoint not found"]]

C19_Witness ==
    /\ lastOp.op = "onRequest"
    /\ lastOp.path = "/.well-known/jwks.json"
    /\ lastOp.response.statusCode = 404
    /\ kv.publicKey # << >>

\* C20: every 500 answered is exactly {error: "Internal server error"} with
\* nothing else in it, and a key-set request one of whose two reads finds
\* publicKey or keyId absent is answered with exactly that 500.
C20_GenericInternalError ==
    /\ []((lastOp.op = "onRequest" /\ lastOp.response.statusCode = 500) =>
              lastOp.response = [statusCode |-> 500,
                                 body |-> [error |-> "Internal server error"]])
    /\ [][(/\ http.pc = "handleJwks"
           /\ lastOp'.op = "onRequest"
           /\ (http.publicKeyJwk = << >> \/ kv.keyId = << >>)) =>
              lastOp'.response = [statusCode |-> 500,
                                  body |-> [error |-> "Internal server error"]]]_vars

C20_Witness ==
    /\ lastOp.op = "onRequest"
    /\ lastOp.path = "/.well-known/jwks"
    /\ lastOp.response.statusCode = 500
    /\ kv.publicKey = << >>
    /\ kv.keyId = << >>
    /\ kv.privateKey = << >>

\* C21: a key set answered 200 holds exactly one key, whose only fields are
\* kid, kty, n and e, kty being "RSA", kid the stored keyId and n and e those
\* of the stored publicKey; and no response handed to http.respond, whatever
\* the path, holds a field or a value of the stored private key other than
\* the public n and e.
C21_JwksPublicFieldsOnly ==
    lastOp.op = "onRequest" =>
        \A i \in 1..Len(lastOp.responds) :
            LET response == lastOp.responds[i].response
                body == response.body
            IN  IF response.statusCode = 200 /\ lastOp.path = "/.well-known/jwks"
                THEN /\ DOMAIN body = {"keys"}
                     /\ Len(body.keys) = 1
                     /\ DOMAIN body.keys[1] = {"kid", "kty", "n", "e"}
                     /\ body.keys[1].kty = "RSA"
                     /\ kv.keyId = <<body.keys[1].kid>>
                     /\ kv.publicKey # << >>
                     /\ body.keys[1].n = kv.publicKey[1].n
                     /\ body.keys[1].e = kv.publicKey[1].e
                     /\ \A f \in {"kid", "kty", "n", "e"}, g \in GeneratedKeys :
                            body.keys[1][f] \notin {<<"d", g>>, <<"p", g>>, <<"q", g>>}
                ELSE IF response.statusCode = 200
                THEN DOMAIN body =
                         {"issuer", "jwks_uri", "response_types_supported",
                          "subject_types_supported",
                          "id_token_signing_alg_values_supported", "claims_supported"}
                ELSE /\ DOMAIN body = {"error"}
                     /\ body.error \in {"Endpoint not found", "Internal server error"}

C21_Witness ==
    /\ lastOp.op = "onRequest"
    /\ lastOp.path = "/.well-known/jwks"
    /\ lastOp.response.statusCode = 200
    /\ kv.privateKey # << >>
    /\ kv.privateKey[1].d = <<"d", 2>>
    /\ lastOp.response.body.keys[1].n = <<"n", 2>>
    /\ sync.pc = "idle"

\* C22: the discovery document answered to a request is the fixed document
\* with issuer the base URL of that request and jwks_uri that URL followed by
\* /.well-known/jwks, whatever the store holds, whatever configuration is
\* set and whatever URL earlier requests came with.
C22_DiscoveryFromRequestUrl ==
    (lastOp.op = "onRequest" /\ lastOp.path = "/.well-known/openid-configuration") =>
        lastOp.response =
            [statusCode |-> 200,
             headers |-> [contentType |-> "application/json"],
             body |-> [issuer |-> lastOp.url,
                       jwks_uri |-> lastOp.url \o <<"/.well-known/jwks">>,
                       response_types_supported |-> <<"id_token">>,
                       subject_types_supported |-> <<"pairwise", "public">>,
                       id_token_signing_alg_values_supported |-> <<"RS256">>,
                       claims_supported |->
                           <<"sub", "aud", "exp", "iat", "iss", "jti", "nbf">>]]

C22_Witness ==
    /\ lastOp.op = "onRequest"
    /\ lastOp.path = "/.well-known/openid-configuration"
    /\ lastOp.url = <<"https://", "other.flows.example">>
    /\ lastOp.response.body.issuer = <<"https://", "other.flows.example">>
    /\ kv.publicKey = << >>

\* C23: a step of onRequest, for any path and in any state (the first store
\* read of a key-set request, its second read and answer, or the answer to
\* any other path), leaves all five store keys, the published signals, the
\* running sync with its remote calls, the requested syncs and the
\* configuration as they were.
C23_RequestsReadOnly ==
    [][(http' # http \/ lastOp'.op = "onRequest") =>
        /\ kv' = kv
        /\ signals' = signals
        /\ sync' = sync
        /\ cachedFrom' = cachedFrom
        /\ syncRequested' = syncRequested
        /\ config' = config]_vars

C23_Witness ==
    /\ lastOp.op = "onRequest"
    /\ lastOp.path = "/.well-known/openid-configuration"
    /\ sync.pc = "impersonate"
    /\ signals.accessToken # << >>
    /\ kv.expiresAt # << >>

\* C24: a sync comes to issue the identity token only from its validation
\* step, which it enters only from an ensureKeyPair step that left all three
\* keys stored; so the keys are stored whenever a sync is about to issue, and
\* no sync returns the failure "Private key or key ID not found".
C24_KeysBeforeIssuance ==
    /\ [](/\ sync.pc \in {"validate", "createOidcToken"} =>
                 (kv.privateKey # << >> /\ kv.publicKey # << >> /\ kv.keyId # << >>)
          /\ sync.pc = "returned" =>
                 sync.result[1].customStatusDescription #
                     <<"Workload Identity sync failed: ", "Private key or key ID not found">>)
    /\ [][/\ (sync'.pc = "createOidcToken" /\ sync.pc # "createOidcToken") =>
                 sync.pc = "validate"
          /\ (sync'.pc = "validate" /\ sync.pc # "validate") =>
                 sync.pc = "ensureKeyPair"
          /\ (sync'.oidcToken # << >> /\ sync.oidcToken = << >>) =>
                 sync.pc = "createOidcToken"]_vars

C24_Witness ==
    /\ sync.pc = "stsExchange"
    /\ sync.oidcToken # << >>
    /\ sync.before[1].privateKey = << >>
    /\ sync.before[1].keyId = << >>

\* C25: when a sync whose config has a projectId has returned in_progress,
\* failed on the provider format, failed on a remote call or ready, all three
\* keys are stored; keys once stored stay stored; and a key-set request that
\* begins while they are stored reads the public key and is answered 200.
C25_KeysServedAfterSync ==
    /\ []((/\ sync.pc = "returned"
           /\ sync.config[1].projectId # ""
           /\ \/ sync.result[1].newStatus \in {"in_progress", "ready"}
              \/ sync.result[1].customStatusDescription[1] # "Workload Identity sync failed: "
              \/ Len(sync.calls) >= 1) =>
              (kv.privateKey # << >> /\ kv.publicKey # << >> /\ kv.keyId # << >>))
    /\ [][/\ (kv.privateKey # << >> /\ kv.publicKey # << >> /\ kv.keyId # << >>) =>
                 (kv'.privateKey # << >> /\ kv'.publicKey # << >> /\ kv'.keyId # << >>)
          /\ (http.pc = "idle" /\ http'.pc = "handleJwks" /\ kv.publicKey # << >>) =>
                 http'.publicKeyJwk # << >>
          /\ (http.pc = "handleJwks" /\ http.publicKeyJwk # << >>
                  /\ lastOp'.op = "onRequest") =>
                 /\ lastOp'.response.statusCode = 200
                 /\ <<lastOp'.response.body.keys[1].kid>> = kv.keyId]_vars

C25_Witness ==
    /\ sync.pc = "returned"
    /\ sync.result[1].newStatus = "in_progress"
    /\ sync.before[1].publicKey = << >>
    /\ kv.expiresAt = << >>
    /\ lastOp.op = "onRequest"
    /\ lastOp.path = "/.well-known/jwks"
    /\ lastOp.response.statusCode = 200

\* C26 as stated: every onRequest calls http.respond exactly once.
C26_RespondsExactlyOnce ==
    lastOp.op = "onRequest" => Len(lastOp.responds) = 1

\* C26: every onRequest calls http.respond once or twice; the first call
\* carries the answer for the path (or the 500 when handleJwks threw); there
\* is a second call exactly when the first was made in the try block and
\* threw, and it carries the 500 {error: "Internal server error"}; a call is
\* made only after every earlier one threw, so at most one goes through.
C26_RespondCalls ==
    lastOp.op = "onRequest" =>
        LET calls == lastOp.responds
        IN  /\ Len(calls) \in {1, 2}
            /\ calls[1].response = lastOp.response
            /\ calls[1].response.statusCode =
                   (CASE lastOp.path = "/.well-known/openid-configuration" -> 200
                      [] lastOp.path = "/.well-known/jwks" ->
                             IF kv.publicKey # << >> THEN 200 ELSE 500
                      [] OTHER -> 404)
            /\ Len(calls) = 2 <=>
                   (~calls[1].ok /\ calls[1].response.statusCode # 500)
            /\ Len(calls) = 2 =>
                   calls[2].response = [statusCode |-> 500,
                                        body |-> [error |-> "Internal server error"]]
            /\ \A i \in 1..(Len(calls) - 1) : ~calls[i].ok

C26_Witness ==
    /\ lastOp.op = "onRequest"
    /\ lastOp.path = "/.well-known/jwks"
    /\ Len(lastOp.responds) = 2
    /\ lastOp.responds[1].response.statusCode = 200
    /\ ~lastOp.responds[1].ok
    /\ lastOp.responds[2].ok

====
